---------------------------- MODULE Spec2Model ----------------------------
(***************************************************************************)
(* Model of the crypto-etf-dashboard scrape-and-normalize pipeline:        *)
(*   src/crypto_etf_flows.py  _to_millions_number, _pick_flows_table,      *)
(*                            fetch_farside_flows behind st.cache_data,    *)
(*                            the force-refresh button and the load step;  *)
(*   src/streamlit_app.py     parse_flow (the second cell normalizer).     *)
(*                                                                         *)
(* Text is modelled as a sequence of one-character strings, so that        *)
(* strip(), lower(), replace() and the regular expression are computed     *)
(* character by character as Python computes them.  The character "EM"     *)
(* stands for the em dash of the placeholder set.  A finite float is       *)
(* modelled as the exact decimal n * 10^e (n without trailing zeros),      *)
(* beside infinity and NaN; rounding of binary floats is not modelled.     *)
(***************************************************************************)
EXTENDS Integers, Sequences, FiniteSets, TLC

VARIABLES
    raw,         \* argument x of _to_millions_number / parse_flow
    value,       \* what _to_millions_number returned for raw
    flow,        \* what parse_flow returned for raw
    candidates,  \* argument `tables` of _pick_flows_table
    picked,      \* what _pick_flows_table returned for candidates
    pc,          \* position of the script run: idle, running, returned, raised
    idx,         \* position of `for url in JINA_URLS` (index of the next url)
    last_error,  \* local last_error of fetch_farside_flows
    requested,   \* urls passed to requests.get during the current run
    firstUsable, \* position in JINA_URLS of the first requested url whose
                 \* document held a usable table, 0 while there is none
    selected,    \* local `base` (line 92) of the iteration that returned
    result,      \* what the call of fetch_farside_flows gave the script (df)
    cache,       \* the st.cache_data slot of fetch_farside_flows
    clock,       \* the cache's timer, in seconds
    fetchCount,  \* number of times the body of fetch_farside_flows was entered
    cleared      \* what the last force refresh of this script run found in the slot

normVars   == <<raw, value, flow>>
locateVars == <<candidates, picked>>
runVars    == <<pc, idx, last_error, requested, firstUsable, selected, result>>
cacheVars  == <<cache, clock, fetchCount, cleared>>
vars       == <<raw, value, flow, candidates, picked, pc, idx, last_error,
                requested, firstUsable, selected, result, cache, clock, fetchCount, cleared>>

-----------------------------------------------------------------------------
(* Bounds of the model *)

MaxLen      == 3   \* longest cell text given to the normalizers
MaxTables   == 2   \* most tables in one document
MaxFlowCols == 3   \* most non-date columns of a table in a document
MaxRows     == 2   \* most data rows of a table in a document
MaxOther    == 4   \* most non-date columns of a candidate given to _pick_flows_table
MaxCands    == 2   \* most candidates given to _pick_flows_table
MaxClock    == 4000 \* the timer stops advancing here
MaxFetches  == 3   \* most pipeline runs in one behaviour

-----------------------------------------------------------------------------
(* Python str operations on character sequences *)

UpperCase == <<"A","B","C","D","E","F","G","H","I","J","K","L","M",
               "N","O","P","Q","R","S","T","U","V","W","X","Y","Z">>
LowerCase == <<"a","b","c","d","e","f","g","h","i","j","k","l","m",
               "n","o","p","q","r","s","t","u","v","w","x","y","z">>
Digits    == <<"0","1","2","3","4","5","6","7","8","9">>

LowerChar(c) ==
    IF \E i \in 1..26 : UpperCase[i] = c
    THEN LowerCase[CHOOSE i \in 1..26 : UpperCase[i] = c]
    ELSE c

\* str.lower()
Lower(s) == [i \in 1..Len(s) |-> LowerChar(s[i])]

IsSpace(c) == c = " "
IsDigit(c) == \E i \in 1..10 : Digits[i] = c
DigitVal(c) == (CHOOSE i \in 1..10 : Digits[i] = c) - 1

\* str.strip()
Strip(s) ==
    LET keep == {i \in 1..Len(s) : ~IsSpace(s[i])}
    IN  IF keep = {} THEN <<>>
        ELSE LET lo == CHOOSE i \in keep : \A j \in keep : i <= j
                 hi == CHOOSE i \in keep : \A j \in keep : i >= j
             IN  SubSeq(s, lo, hi)

StartsWithAt(s, sub, i) ==
    /\ i + Len(sub) - 1 <= Len(s)
    /\ \A k \in 1..Len(sub) : s[i + k - 1] = sub[k]

\* `sub in s`
Contains(s, sub) == \E i \in 1..(Len(s) + 1) : StartsWithAt(s, sub, i)

\* s.replace(sub, ""): leftmost, non-overlapping occurrences removed
RECURSIVE RemoveFrom(_, _, _)
RemoveFrom(s, sub, i) ==
    IF i > Len(s) THEN <<>>
    ELSE IF StartsWithAt(s, sub, i) THEN RemoveFrom(s, sub, i + Len(sub))
    ELSE <<s[i]>> \o RemoveFrom(s, sub, i + 1)

Remove(s, sub) == RemoveFrom(s, sub, 1)

\* int of a run of digits
RECURSIVE DigitsValue(_)
DigitsValue(ds) ==
    IF ds = <<>> THEN 0
    ELSE 10 * DigitsValue(SubSeq(ds, 1, Len(ds) - 1)) + DigitVal(ds[Len(ds)])

-----------------------------------------------------------------------------
(* Values *)

\* a cell as pandas hands it over: NaN (blank cell) or text (str(x))
NaNCell   == [tag |-> "nan", text |-> <<>>]
Text(s)   == [tag |-> "str", text |-> s]

\* a Python float: the finite value n * 10^e (in canonical form: n has no
\* trailing zero, and e = 0 when n = 0), +-inf or nan; Pending: nothing
\* returned yet
RECURSIVE Finite(_, _)
Finite(n, e) ==
    IF n = 0 THEN [kind |-> "finite", val |-> 0, exp |-> 0]
    ELSE IF n % 10 = 0 THEN Finite(n \div 10, e + 1)
    ELSE [kind |-> "finite", val |-> n, exp |-> e]
Zero      == Finite(0, 0)
Inf(sign) == [kind |-> "inf", val |-> sign, exp |-> 0]
NaN       == [kind |-> "nan", val |-> 0, exp |-> 0]
Pending   == [kind |-> "pending", val |-> 0, exp |-> 0]


-----------------------------------------------------------------------------
(* _to_millions_number, src/crypto_etf_flows.py lines 37-65 *)

\* the set {"—", "-", "--", "nan", ""} of line 43
Placeholders == { <<"EM">>, <<"-">>, <<"-", "-">>, <<"n", "a", "n">>, <<>> }

\* index after the longest run of digits (or of whitespace) starting at i
RECURSIVE RunEnd(_, _, _)
RunEnd(s, i, digits) ==
    IF i <= Len(s) /\ (IF digits THEN IsDigit(s[i]) ELSE IsSpace(s[i]))
    THEN RunEnd(s, i + 1, digits)
    ELSE i

\* does ([+-]?\d+(?:\.\d+)?)(?:\s*([mb]))? match starting at i
MatchesAt(s, i) ==
    \/ IsDigit(s[i])
    \/ s[i] \in {"+", "-"} /\ i + 1 <= Len(s) /\ IsDigit(s[i + 1])

\* re.search(r"([+-]?\d+(?:\.\d+)?)(?:\s*([mb]))?", s): the leftmost match,
\* every quantifier greedy.  found = FALSE stands for None.
ReSearch(s) ==
    LET starts == {i \in 1..Len(s) : MatchesAt(s, i)}
    IN  IF starts = {} THEN [found |-> FALSE]
        ELSE
        LET i0     == CHOOSE i \in starts : \A j \in starts : i <= j
            neg    == s[i0] = "-"
            d0     == IF IsDigit(s[i0]) THEN i0 ELSE i0 + 1
            d1     == RunEnd(s, d0, TRUE)
            hasFr  == d1 + 1 <= Len(s) /\ s[d1] = "." /\ IsDigit(s[d1 + 1])
            f1     == IF hasFr THEN RunEnd(s, d1 + 1, TRUE) ELSE d1
            w1     == RunEnd(s, f1, FALSE)
            hasSc  == w1 <= Len(s) /\ s[w1] \in {"m", "b"}
        IN  [found    |-> TRUE,
             negative |-> neg,
             int      |-> SubSeq(s, d0, d1 - 1),
             frac     |-> IF hasFr THEN SubSeq(s, d1 + 1, f1 - 1) ELSE <<>>,
             scale    |-> IF hasSc THEN s[w1] ELSE "none"]

\* float(s) of line 54 for a text with no digit in it (the only texts the
\* regular expression does not match): inf, infinity and nan, with an optional
\* sign, convert; everything else raises ValueError.  err stands for the raise.
PyFloat(s) ==
    LET signed == Len(s) > 0 /\ s[1] \in {"+", "-"}
        body   == IF signed THEN SubSeq(s, 2, Len(s)) ELSE s
        sign   == IF signed /\ s[1] = "-" THEN -1 ELSE 1
    IN  IF body \in { <<"i","n","f">>, <<"i","n","f","i","n","i","t","y">> }
        THEN Inf(sign)
        ELSE IF body = <<"n","a","n">> THEN NaN
        ELSE [kind |-> "err", val |-> 0, exp |-> 0]

\* float(number) * 10^scale as an exact decimal
Scaled(m, scale) ==
    LET mag == DigitsValue(m.int \o m.frac)
    IN  Finite(IF m.negative THEN -mag ELSE mag, scale - Len(m.frac))

to_millions_number(x) ==
    IF x.tag = "nan" THEN Zero
    ELSE
    LET s == Lower(Strip(x.text))
    IN  IF s \in Placeholders THEN Zero
        ELSE
        LET s2 == Strip(Remove(Remove(Remove(s, <<"$">>), <<",">>), <<"u","s","d">>))
            m  == ReSearch(s2)
        IN  IF ~m.found
            THEN LET f == PyFloat(s2)
                 IN  IF f.kind = "err" THEN Zero ELSE f
            ELSE IF m.scale = "b" THEN Scaled(m, 9)   \* val *= 1_000_000_000
            ELSE Scaled(m, 6)                         \* val *= 1_000_000

-----------------------------------------------------------------------------
(* parse_flow, src/streamlit_app.py lines 49-56 *)

\* float(x) of line 54: an optional sign, digits with an optional decimal part
\* (or inf, infinity, nan), surrounded by optional whitespace; else ValueError
PyFloatNumber(t) ==
    LET s      == Strip(t)
        signed == Len(s) > 0 /\ s[1] \in {"+", "-"}
        d0     == IF signed THEN 2 ELSE 1
        d1     == RunEnd(s, d0, TRUE)
        hasDot == d1 <= Len(s) /\ s[d1] = "."
        f1     == IF hasDot THEN RunEnd(s, d1 + 1, TRUE) ELSE d1
        int    == SubSeq(s, d0, d1 - 1)
        frac   == IF hasDot THEN SubSeq(s, d1 + 1, f1 - 1) ELSE <<>>
    IN  IF f1 = Len(s) + 1 /\ Len(int) + Len(frac) > 0
        THEN [found |-> TRUE, negative |-> signed /\ s[1] = "-",
              int |-> int, frac |-> frac, scale |-> "none"]
        ELSE [found |-> FALSE]

parse_flow(x) ==
    IF x.tag # "str" THEN Zero
    ELSE
    LET s == Strip(Remove(Remove(Remove(Remove(x.text, <<"$">>), <<"m">>), <<"+">>), <<",">>))
        n == PyFloatNumber(s)
    IN  IF n.found THEN Scaled(n, 6)   \* float(x) * 1_000_000
        ELSE LET f == PyFloat(Lower(s))
             IN  IF f.kind = "err" THEN Zero ELSE f

-----------------------------------------------------------------------------
(* The normalizers applied to every cell text up to MaxLen characters *)

CellChars == {"1", "2", ".", "-", "+", "m", "B", "x", "$", ",", " ",
              "i", "n", "f", "EM"}

RECURSIVE SeqsUpTo(_, _)
\* the sequences of at most n members of S
SeqsUpTo(chars, n) ==
    IF n = 0 THEN { <<>> }
    ELSE LET shorter == SeqsUpTo(chars, n - 1)
         IN  shorter \cup { Append(t, c) : t \in shorter, c \in chars }

CellInputs == {NaNCell} \cup { Text(t) : t \in SeqsUpTo(CellChars, MaxLen) }

InitNorm ==
    /\ raw \in CellInputs
    /\ value = Pending
    /\ flow = Pending

Normalize ==
    /\ value = Pending
    /\ value' = to_millions_number(raw)
    /\ UNCHANGED <<raw, flow>>

ParseFlow ==
    /\ flow = Pending
    /\ flow' = parse_flow(raw)
    /\ UNCHANGED <<raw, value>>

-----------------------------------------------------------------------------
(* Tables (pandas DataFrames as pd.read_html returns them) *)

\* a table: its column labels and its data rows, each row a tuple of cells
\* aligned with the columns
Table(cols, rows) == [columns |-> cols, rows |-> rows]
EmptyTable == Table(<<>>, <<>>)

\* DataFrame.empty: some axis has length 0
IsEmpty(t) == Len(t.columns) = 0 \/ Len(t.rows) = 0

DateLabel == <<"D", "a", "t", "e">>
DateLower == <<"d", "a", "t", "e">>

ColIndex(t, label) == CHOOSE i \in 1..Len(t.columns) : t.columns[i] = label

\* None of _pick_flows_table
NoTable == [found |-> FALSE, index |-> 0, table |-> EmptyTable]

FirstOf(S) == CHOOSE i \in S : \A j \in S : i <= j

\* a seeded fault: the labels are compared with "Date" as written, case and all
PickCaseSensitive(tables) ==
    LET cols(t) == [i \in 1..Len(t.columns) |-> Strip(t.columns[i])]
        hits    == {n \in 1..Len(tables) :
                      \E i \in 1..Len(tables[n].columns) : cols(tables[n])[i] = DateLabel}
    IN  IF hits = {} THEN NoTable
        ELSE LET n == FirstOf(hits)
             IN  [found |-> TRUE, index |-> n,
                  table |-> Table(cols(tables[n]), tables[n].rows)]

\* _pick_flows_table: the first table one of whose stripped column labels is
\* "date" when lower-cased; its columns are replaced by the stripped labels.
\* index is the position of the returned table in `tables`.
pick_flows_table(tables) ==
    LET cols(t) == [i \in 1..Len(t.columns) |-> Strip(t.columns[i])]
        hits    == {n \in 1..Len(tables) :
                      \E i \in 1..Len(tables[n].columns) :
                          Lower(cols(tables[n])[i]) = DateLower}
    IN  IF hits = {} THEN NoTable
        ELSE LET n == FirstOf(hits)
             IN  [found |-> TRUE, index |-> n,
                  table |-> Table(cols(tables[n]), tables[n].rows)]

-----------------------------------------------------------------------------
(* The body of fetch_farside_flows for one url, lines 83-120 *)

NaT == 0

\* texts pd.to_datetime(errors="coerce") converts, and the day each stands for;
\* every other cell becomes NaT
DateTexts == << <<"1","1"," ","J","a","n"," ","2","0","2","4">>,
                <<"1","2"," ","J","a","n"," ","2","0","2","4">>,
                <<"1","3"," ","J","a","n"," ","2","0","2","4">> >>

ToDatetime(cell) ==
    IF cell.tag = "str" /\ \E d \in 1..Len(DateTexts) : DateTexts[d] = cell.text
    THEN CHOOSE d \in 1..Len(DateTexts) : DateTexts[d] = cell.text
    ELSE NaT

\* drop_like of line 101
DropLike == { <<"t","o","t","a","l">>, <<"a","u","m">>, <<"i","s","s","u","e","r">>,
              <<"i","n","c","e","p","t","i","o","n">>, <<"f","u","n","d">>,
              <<"c","u","m","u","l","a","t","i","v","e">> }

\* a seeded fault: no row is dropped
KeepAllRows(t) == t

\* lines 97-98: rows whose Date is NaT after coercion are dropped
DropNaT(t) ==
    LET d == ColIndex(t, DateLabel)
    IN  Table(t.columns, SelectSeq(t.rows, LAMBDA r : ToDatetime(r[d]) # NaT))

RECURSIVE IndexSeq(_, _)
\* the members of the set S of indexes below or at n, ascending
IndexSeq(S, n) ==
    IF n = 0 THEN <<>>
    ELSE IF n \in S THEN Append(IndexSeq(S, n - 1), n) ELSE IndexSeq(S, n - 1)

\* lines 102-106: the value columns kept beside "Date", in column order
KeepCols(t) ==
    IndexSeq({c \in 1..Len(t.columns) :
                /\ t.columns[c] # DateLabel
                /\ \A k \in DropLike : ~Contains(Lower(t.columns[c]), k)},
             Len(t.columns))

\* lines 109-115: base.melt(id_vars=["Date"], var_name="etf", value_name="flow_usd")
\* of the cleaned columns: one record per kept column and row, column by column
Melt(t) ==
    LET d    == ColIndex(t, DateLabel)
        keep == KeepCols(t)
        nr   == Len(t.rows)
    IN  [k \in 1..(Len(keep) * nr) |->
            LET c == keep[((k - 1) \div nr) + 1]
                r == t.rows[((k - 1) % nr) + 1]
            IN  [Date     |-> ToDatetime(r[d]),
                 etf      |-> t.columns[c],
                 flow_usd |-> to_millions_number(r[c])]]

RECURSIVE AscendingOrders(_, _)
\* the orders of the records with index in S that ascend in Date: any record
\* of least Date comes first
AscendingOrders(recs, S) ==
    IF S = {} THEN { <<>> }
    ELSE LET least == {i \in S : \A j \in S : recs[i].Date <= recs[j].Date}
         IN  UNION { { <<recs[i]>> \o rest : rest \in AscendingOrders(recs, S \ {i}) } :
                     i \in least }

\* a seeded fault: the records are left in the order melt gave them
KeepOrder(recs) == { recs }

\* line 116: sort_values("Date") with the default kind (quicksort, which is not
\* stable): the records in any order that ascends in Date
SortValues(recs) == AscendingOrders(recs, 1..Len(recs))

\* a document: what requests.get / raise_for_status / pd.read_html give for a url
HttpFailure  == [status |-> "error", tables |-> <<>>]
Page(tables) == [status |-> "ok", tables |-> tables]

\* last_error: None, or the exception caught while trying url
NoError == [url |-> "", kind |-> "None"]
Error(url, kind) == [url |-> url, kind |-> kind]

\* One iteration of the loop, lines 83-120, on a url answering `doc`:
\*   kind "except"   the exception `error` reached line 118,
\*   kind "continue" line 90 or 94 was taken,
\*   kind "return"   line 117 was reached: base is the table picked at line
\*                   92 and frames are the values long_df may have.
TryBody(doc) ==
    IF doc.status # "ok"   \* requests.get or raise_for_status raises
    THEN [kind |-> "except", error |-> "HTTPError", base |-> NoTable, frames |-> {}]
    ELSE IF Len(doc.tables) = 0   \* pd.read_html raises "No tables found"
    THEN [kind |-> "except", error |-> "ValueError", base |-> NoTable, frames |-> {}]
    ELSE
    LET b == pick_flows_table(doc.tables)
    IN  IF ~b.found \/ IsEmpty(b.table)
        THEN [kind |-> "continue", error |-> "None", base |-> NoTable, frames |-> {}]
        ELSE IF \A i \in 1..Len(b.table.columns) : b.table.columns[i] # DateLabel
        THEN \* base["Date"] of line 97 raises
             [kind |-> "except", error |-> "KeyError", base |-> NoTable, frames |-> {}]
        ELSE [kind |-> "return", error |-> "None", base |-> b,
              frames |-> SortValues(Melt(DropNaT(b.table)))]

-----------------------------------------------------------------------------
(* The documents the upstream may answer with *)

\* labels of the columns beside the date column, in page order
TickerNames == << <<"I","B","I","T">>, <<"F","B","T","C">>, <<"T","o","t","a","l">>,
                  <<"A","U","M">>, <<"G","B","T","C">>, <<"A","R","K","B">>,
                  <<"B","I","T","B">> >>

\* spellings of the date column's label
DateNames == { DateLabel, <<" ","D","a","t","e"," ">>, DateLower }

IsDateName(label) == Lower(Strip(label)) = DateLower

Min(a, b) == IF a <= b THEN a ELSE b

\* a header with the date label dn after p of k ticker labels
HeaderWith(dn, p, k) ==
    [i \in 1..(k + 1) |-> IF i <= p THEN TickerNames[i]
                          ELSE IF i = p + 1 THEN dn
                          ELSE TickerNames[i - 1]]

\* a header of k ticker labels and no date label
HeaderWithout(k) == SubSeq(TickerNames, 1, k)

\* a data row: the text of its date cell and of its flow cells
RowSpecs ==
    { [date |-> Text(DateTexts[1]),            flow |-> Text(<<"1",".","5","m">>)],
      [date |-> Text(DateTexts[2]),            flow |-> Text(<<"-","3",".","2">>)],
      [date |-> Text(DateTexts[3]),            flow |-> Text(<<"-">>)],
      [date |-> Text(<<"T","o","t","a","l">>), flow |-> Text(<<"1",".","5","m">>)] }

TableOf(header, rowspecs) ==
    Table(header,
          [r \in 1..Len(rowspecs) |->
              [i \in 1..Len(header) |->
                  IF IsDateName(header[i]) THEN rowspecs[r].date ELSE rowspecs[r].flow]])

\* headers of the tables of a page: the date label first, or none
PageHeaders(maxCols) ==
    LET n == Min(maxCols, Len(TickerNames))
    IN  { HeaderWith(dn, 0, k) : dn \in DateNames, k \in 0..n }
        \cup { HeaderWithout(k) : k \in 1..n }

\* tables standing before the flows matrix on a page: a legend without date
\* column, and a table with a date column and no data row
Decoys == { TableOf(<<TickerNames[3], TickerNames[4]>>,
                    << [date |-> Text(DateTexts[1]), flow |-> Text(<<"-">>)] >>),
            Table(<<DateLabel, TickerNames[1]>>, <<>>) }

\* pages of at most maxTables tables: no table at all, or decoys and then one
\* table of at most maxCols columns beside the date and at most maxRows rows
PagesOf(maxTables, maxCols, maxRows) ==
    { Page(<<>>) } \cup
    { Page(ds \o << TableOf(h, rs) >>) :
        ds \in SeqsUpTo(Decoys, maxTables - 1),
        h  \in PageHeaders(maxCols),
        rs \in SeqsUpTo(RowSpecs, maxRows) }

Documents      == {HttpFailure} \cup PagesOf(MaxTables, MaxFlowCols, MaxRows)
CacheDocuments == {HttpFailure} \cup PagesOf(1, 1, 1)

\* a document with a usable table: it has a table with a date column
\* (whatever the case of the label), and the first such table has data rows
Usable(doc) ==
    /\ doc.status = "ok"
    /\ \E n \in 1..Len(doc.tables) :
          /\ \E i \in 1..Len(doc.tables[n].columns) : IsDateName(doc.tables[n].columns[i])
          /\ \A m \in 1..(n - 1) :
                \A i \in 1..Len(doc.tables[m].columns) : ~IsDateName(doc.tables[m].columns[i])
          /\ Len(doc.tables[n].rows) > 0

-----------------------------------------------------------------------------
(* The script: st.cache_data around fetch_farside_flows, the force-refresh *)
(* button and the load step                                                *)

JINA_URLS == << "https://r.jina.ai/http://farside.co.uk/bitcoin-etf-flows",
                "https://r.jina.ai/https://farside.co.uk/bitcoin-etf-flows",
                "https://r.jina.ai/http://www.farside.co.uk/bitcoin-etf-flows",
                "https://r.jina.ai/https://www.farside.co.uk/bitcoin-etf-flows",
                "https://r.jina.ai/http://farside.co.uk/bitcoin-etf-flows/",
                "https://r.jina.ai/https://farside.co.uk/bitcoin-etf-flows/" >>

\* ttl=30 * 60 of line 78, in seconds
TTL == 30 * 60

\* advances of the timer between two steps
TickSteps == {900, 1799}

NoResult == <<>>
NoEntry  == [present |-> FALSE, value |-> <<>>, storedAt |-> 0]
Entry(df, now) == [present |-> TRUE, value |-> df, storedAt |-> now]

\* a seeded fault: an entry is still served at the instant of its expiry
CacheValidInclusive(entry, now) == entry.present /\ now <= entry.storedAt + TTL

\* st.cache_data(ttl=...): an entry is served while the timer is before its expiry
CacheValid(entry, now) == entry.present /\ now < entry.storedAt + TTL

\* a seeded fault: clearing leaves the entry in place
ClearNothing(entry) == entry

\* fetch_farside_flows.clear()
ClearCache(entry) == NoEntry

\* a seeded fault: the same url is tried again
SameUrl(i) == i

\* `for url in JINA_URLS`: the position after the one at i
NextUrl(i) == i + 1

RunIdle ==
    /\ pc = "idle"
    /\ idx = 1
    /\ last_error = NoError
    /\ requested = <<>>
    /\ firstUsable = 0
    /\ selected = NoTable
    /\ result = NoResult

\* lines 139-143, df = fetch_farside_flows(): the cached value, or the body is entered
LoadData ==
    /\ pc = "idle"
    /\ UNCHANGED cleared
    /\ idx' = 1
    /\ last_error' = NoError
    /\ requested' = <<>>
    /\ firstUsable' = 0
    /\ selected' = NoTable
    /\ UNCHANGED clock
    /\ IF CacheValid(cache, clock)
       THEN /\ pc' = "returned"
            /\ result' = cache.value
            /\ UNCHANGED <<cache, fetchCount>>
       ELSE /\ fetchCount < MaxFetches
            /\ pc' = "running"
            /\ result' = NoResult
            /\ cache' = NoEntry
            /\ fetchCount' = fetchCount + 1

\* what the loop body does on each document of D, with whether the document
\* had a usable table
Outcomes(D) == { [usable |-> Usable(doc), body |-> TryBody(doc)] : doc \in D }

DocumentOutcomes      == Outcomes(Documents)
CacheDocumentOutcomes == Outcomes(CacheDocuments)

\* one iteration of the loop of lines 82-120, the url answering a document
\* with an outcome of O; the return of line 117 stores the value in the
\* cache; leaving the loop raises (line 124)
TryUrl(O) ==
    /\ pc = "running"
    /\ idx <= Len(JINA_URLS)
    /\ \E out \in O :
          LET url == JINA_URLS[idx]
              o   == out.body
          IN  /\ requested' = Append(requested, url)
              /\ firstUsable' = IF firstUsable = 0 /\ out.usable THEN idx ELSE firstUsable
              /\ IF o.kind = "return"
                 THEN /\ \E df \in o.frames :
                            /\ result' = df
                            /\ cache' = Entry(df, clock)
                      /\ selected' = o.base
                      /\ pc' = "returned"
                      /\ idx' = 1                \* the locals of the call are gone
                      /\ last_error' = NoError
                 ELSE /\ last_error' = IF o.kind = "except" THEN Error(url, o.error)
                                        ELSE last_error
                      /\ idx' = NextUrl(idx)
                      /\ pc' = IF NextUrl(idx) > Len(JINA_URLS) THEN "raised" ELSE "running"
                      /\ UNCHANGED <<result, cache, selected>>
    /\ UNCHANGED <<clock, fetchCount, cleared>>

\* the script run ends (st.stop() or the last line); the next event reruns it
Rerun ==
    /\ pc \in {"returned", "raised"}
    /\ pc' = "idle"
    /\ idx' = 1
    /\ last_error' = NoError
    /\ requested' = <<>>
    /\ firstUsable' = 0
    /\ selected' = NoTable
    /\ result' = NoResult
    /\ cleared' = "no"
    /\ UNCHANGED <<cache, clock, fetchCount>>

\* lines 132-134: the force-refresh button
ForceRefresh ==
    /\ pc = "idle"
    /\ cache' = ClearCache(cache)
    /\ cleared' = IF ~cache.present THEN "empty"
                  ELSE IF clock < cache.storedAt + TTL THEN "valid"
                  ELSE "expired"
    /\ UNCHANGED <<clock, fetchCount>>
    /\ UNCHANGED runVars

Tick ==
    /\ \E d \in TickSteps :
          /\ clock + d <= MaxClock
          /\ clock' = clock + d
    /\ UNCHANGED <<cache, fetchCount, cleared>>
    /\ UNCHANGED runVars

-----------------------------------------------------------------------------
(* _pick_flows_table applied to lists of candidate tables *)

CandidateHeaders ==
    LET n == Min(MaxOther, Len(TickerNames))
    IN  UNION { { HeaderWith(dn, p, k) : dn \in DateNames, p \in {0, k} } : k \in 0..n }
        \cup { HeaderWithout(k) : k \in 1..n }

\* candidates carry one data row; _pick_flows_table reads the labels only
CandidateTables ==
    { TableOf(h, << [date |-> Text(DateTexts[1]), flow |-> Text(<<"-">>)] >>) :
        h \in CandidateHeaders }

PendingPick == [found |-> FALSE, index |-> -1, table |-> EmptyTable]

Locate ==
    /\ picked = PendingPick
    /\ picked' = pick_flows_table(candidates)
    /\ UNCHANGED candidates

-----------------------------------------------------------------------------
(* Specifications *)

NormIdle   == raw = NaNCell /\ value = Pending /\ flow = Pending
LocateIdle == candidates = <<>> /\ picked = PendingPick
CacheIdle  == cache = NoEntry /\ clock = 0 /\ fetchCount = 0 /\ cleared = "no"

\* the two cell normalizers on every cell text
InitNormalize == InitNorm /\ LocateIdle /\ RunIdle /\ CacheIdle
NextNormalize ==
    \/ Normalize /\ UNCHANGED <<locateVars, runVars, cacheVars>>
    \/ ParseFlow /\ UNCHANGED <<locateVars, runVars, cacheVars>>
SpecNormalize == InitNormalize /\ [][NextNormalize]_vars

\* _pick_flows_table on every list of candidates
InitLocate ==
    /\ candidates \in SeqsUpTo(CandidateTables, MaxCands)
    /\ picked = PendingPick
    /\ NormIdle /\ RunIdle /\ CacheIdle
NextLocate == Locate /\ UNCHANGED <<normVars, runVars, cacheVars>>
SpecLocate == InitLocate /\ [][NextLocate]_vars

\* script runs over every document, the timer standing still
Init == NormIdle /\ LocateIdle /\ RunIdle /\ CacheIdle
Next ==
    \/ LoadData /\ UNCHANGED <<normVars, locateVars>>
    \/ TryUrl(DocumentOutcomes) /\ UNCHANGED <<normVars, locateVars>>
    \/ Rerun /\ UNCHANGED <<normVars, locateVars>>
Spec == Init /\ [][Next]_vars

\* script runs, force refreshes and the passing of time, over small documents
NextCache ==
    \/ LoadData /\ UNCHANGED <<normVars, locateVars>>
    \/ TryUrl(CacheDocumentOutcomes) /\ UNCHANGED <<normVars, locateVars>>
    \/ Rerun /\ UNCHANGED <<normVars, locateVars>>
    \/ ForceRefresh /\ UNCHANGED <<normVars, locateVars>>
    \/ Tick /\ UNCHANGED <<normVars, locateVars>>
SpecCache == Init /\ [][NextCache]_vars

-----------------------------------------------------------------------------
(* Properties *)

\* a call of fetch_farside_flows (through the cache) happens in this step
CallStep == pc = "idle" /\ pc' # "idle"

\* the body of fetch_farside_flows returned in this script run
BodyReturned == pc = "returned" /\ requested # <<>>

\* C1: if some variant yields a usable table, the call returns the dataset of
\* the first such variant in list order (failures of earlier variants do not
\* abort the call); so the variant that returned is the first usable one, and
\* the call raises only when no variant was usable.
C1_FirstUsableVariantReturned ==
    /\ BodyReturned => firstUsable = Len(requested)
    /\ pc = "raised" => firstUsable = 0

\* C2: when every variant fails, the error carried by the raise is the error
\* of the last variant of the list: not an earlier variant's, not None.
C2_LastVariantErrorCarried ==
    pc = "raised" =>
        /\ last_error # NoError
        /\ last_error.url = JINA_URLS[Len(JINA_URLS)]

\* C3: the cache slot holds nothing, or the non-empty dataset of a pipeline
\* run that succeeded.
C3_SlotEmptyOrNonEmptyDataset ==
    cache.present => Len(cache.value) > 0

\* what a step does to the cache and the pipeline, by the age of the entry
C4_Step ==
    /\ CallStep =>
          IF cache.present /\ clock - cache.storedAt < 30 * 60
          THEN /\ pc' = "returned"
               /\ result' = cache.value
               /\ requested' = <<>>
               /\ fetchCount' = fetchCount
               /\ cache' = cache
          ELSE /\ pc' = "running"
               /\ requested' = <<>>
               /\ fetchCount' = fetchCount + 1
    /\ ~CallStep => fetchCount' = fetchCount

\* C4: a call made while the stored entry is less than 30 minutes old returns
\* the stored dataset, requests nothing upstream and runs no pipeline; a call
\* made once the 30 minutes have elapsed (or with no entry) starts exactly one
\* pipeline run; nothing but a call starts a pipeline run.
C4_ValidEntryServedExpiredRefetched == [][C4_Step]_vars

\* the stored entry is served at the last second of its 30 minutes
C4_Witness ==
    /\ pc = "returned" /\ requested = <<>> /\ fetchCount = 1
    /\ cache.present /\ clock = cache.storedAt + 1799 /\ result = cache.value

\* what the first call after a force refresh does
C5_Step ==
    (CallStep /\ cleared # "no") =>
        /\ pc' = "running"
        /\ requested' = <<>>
        /\ fetchCount' = fetchCount + 1

\* C5: the first call after a force refresh runs the pipeline, whether the
\* slot was empty, held a valid entry or held an expired one when cleared.
C5_CallAfterClearRunsPipeline == [][C5_Step]_vars

\* the pipeline runs again although the cleared entry was still valid
C5_Witness == pc = "running" /\ cleared = "valid" /\ fetchCount = 2 /\ clock < TTL

\* order of characters (space, digits, upper case, lower case, as in ASCII)
CharRank(c) ==
    IF c = " " THEN 0
    ELSE IF IsDigit(c) THEN 1 + DigitVal(c)
    ELSE IF \E i \in 1..26 : UpperCase[i] = c
         THEN 20 + (CHOOSE i \in 1..26 : UpperCase[i] = c)
    ELSE IF \E i \in 1..26 : LowerCase[i] = c
         THEN 50 + (CHOOSE i \in 1..26 : LowerCase[i] = c)
    ELSE 100

\* a < b for texts, as Python orders str
RECURSIVE TextLess(_, _)
TextLess(a, b) ==
    IF b = <<>> THEN FALSE
    ELSE IF a = <<>> THEN TRUE
    ELSE IF CharRank(a[1]) # CharRank(b[1]) THEN CharRank(a[1]) < CharRank(b[1])
    ELSE TextLess(Tail(a), Tail(b))

\* C6 as claimed: the returned dataset is sorted by (instrument, date)
\* ascending: every adjacent pair of records is non-decreasing in that pair.
C6_SortedByInstrumentThenDate ==
    pc = "returned" =>
        \A k \in 1..(Len(result) - 1) :
            \/ TextLess(result[k].etf, result[k + 1].etf)
            \/ result[k].etf = result[k + 1].etf /\ result[k].Date <= result[k + 1].Date

\* C6 as amended: the returned dataset is sorted by date ascending: every
\* adjacent pair of records is non-decreasing in Date.
C6_SortedByDate ==
    pc = "returned" =>
        \A k \in 1..(Len(result) - 1) : result[k].Date <= result[k + 1].Date

\* the table had its rows in descending date order and two instruments
C6_Witness ==
    /\ BodyReturned
    /\ Len(selected.table.rows) = 2
    /\ ToDatetime(selected.table.rows[1][1]) > ToDatetime(selected.table.rows[2][1])
    /\ ToDatetime(selected.table.rows[2][1]) # NaT
    /\ Len(result) = 4

\* rows of the selected table and those with an unparseable date
RowsOf(t)      == 1..Len(t.rows)
DateColumn(t)  == CHOOSE i \in 1..Len(t.columns) : t.columns[i] = <<"D","a","t","e">>
BadDateRows(t) ==
    {r \in RowsOf(t) : \A d \in 1..Len(DateTexts) : t.rows[r][DateColumn(t)] # Text(DateTexts[d])}
NonDateColumns(t) == {c \in 1..Len(t.columns) : t.columns[c] # <<"D","a","t","e">>}
StopWords == { <<"t","o","t","a","l">>, <<"a","u","m">>, <<"i","s","s","u","e","r">>,
               <<"i","n","c","e","p","t","i","o","n">>, <<"f","u","n","d">>,
               <<"c","u","m","u","l","a","t","i","v","e">> }
FlowColumns(t) ==
    {c \in NonDateColumns(t) : \A w \in StopWords : ~Contains(Lower(t.columns[c]), w)}

\* the records of `df` that stand for cell (r, c) of table t
RecordsOfCell(df, t, r, c) ==
    LET rec == [Date     |-> ToDatetime(t.rows[r][DateColumn(t)]),
                etf      |-> t.columns[c],
                flow_usd |-> to_millions_number(t.rows[r][c])]
    IN  {k \in 1..Len(df) : df[k] = rec}

\* C7 as claimed: for a selected table of N rows, D of them with an
\* unparseable date, and M columns beside the date, the output has exactly
\* (N - D) * M records.
C7_RecordPerNonDateCell ==
    BodyReturned =>
        Len(result) = (Len(selected.table.rows) - Cardinality(BadDateRows(selected.table)))
                        * Cardinality(NonDateColumns(selected.table))

\* C7 as amended: the output has exactly (N - D) * M records, M counting the
\* columns beside "Date" whose lower-cased label contains no word of the
\* stoplist; every cell of such a column in a row with a valid date has a
\* record with the column's label as instrument.
C7_RecordPerKeptCell ==
    BodyReturned =>
        LET t    == selected.table
            kept == FlowColumns(t)
            good == RowsOf(t) \ BadDateRows(t)
        IN  /\ Len(result) = (Len(t.rows) - Cardinality(BadDateRows(t)))
                               * Cardinality(kept)
            /\ \A r \in good : \A c \in kept : RecordsOfCell(result, t, r, c) # {}

\* a table with a bad date row, a stoplisted column and two kept columns
C7_Witness ==
    /\ BodyReturned
    /\ Len(selected.table.rows) = 2
    /\ Cardinality(BadDateRows(selected.table)) = 1
    /\ Cardinality(NonDateColumns(selected.table)) = 3
    /\ Cardinality(FlowColumns(selected.table)) = 2
    /\ Len(result) = 2

\* does the candidate have a column labelled "date", whatever the case and
\* the surrounding blanks
HasDateColumn(t) ==
    \E i \in 1..Len(t.columns) : Lower(Strip(t.columns[i])) = <<"d","a","t","e">>

\* C8 as claimed: the candidate returned is the first with a date column and
\* more than 3 other columns; None is returned when there is no such candidate.
C8_FirstWithDateAndMoreThanThree ==
    picked # PendingPick =>
        LET ok == {n \in 1..Len(candidates) :
                     HasDateColumn(candidates[n]) /\ Len(candidates[n].columns) - 1 > 3}
        IN  IF ok = {} THEN ~picked.found
            ELSE picked.found /\ picked.index = FirstOf(ok)

\* C8 as amended: the candidate returned is the first with a date column,
\* however many other columns it has, with its labels stripped; None is
\* returned when no candidate has a date column.
C8_FirstWithDateColumn ==
    picked # PendingPick =>
        LET ok == {n \in 1..Len(candidates) : HasDateColumn(candidates[n])}
        IN  IF ok = {} THEN picked = NoTable
            ELSE /\ picked.found
                 /\ picked.index = FirstOf(ok)
                 /\ picked.table.rows = candidates[FirstOf(ok)].rows
                 /\ \A i \in 1..Len(picked.table.columns) :
                        picked.table.columns[i] = Strip(candidates[FirstOf(ok)].columns[i])

\* the second candidate is returned: the first has no date column, the second
\* a lower-case date label and a single other column, after it
C8_Witness ==
    /\ Len(candidates) = 2
    /\ ~HasDateColumn(candidates[1])
    /\ candidates[2].columns = << TickerNames[1], <<"d","a","t","e">> >>
    /\ picked.found /\ picked.index = 2

\* the text of a cell trimmed, lower-cased and without "$" and ","
Cleaned(t) == Strip(Remove(Remove(Lower(Strip(t)), <<"$">>), <<",">>))

\* optional sign, digits, optional decimal part, optional scale letter: the
\* whole of s
WholePattern(s) ==
    \E a \in 0..1, b \in 1..Len(s), c \in 0..Len(s), d \in 0..1 :
        /\ a + b + c + d = Len(s)
        /\ a = 1 => s[1] \in {"+", "-"}
        /\ \A i \in (a + 1)..(a + b) : IsDigit(s[i])
        /\ c > 0 => c >= 2 /\ s[a + b + 1] = "."
                      /\ \A i \in (a + b + 2)..(a + b + c) : IsDigit(s[i])
        /\ d = 1 => s[Len(s)] \in {"m", "b"}

\* C9: every text that does not match the whole pattern normalizes to 0, a
\* text that merely contains a number among other characters included.
C9_ZeroUnlessWholePattern ==
    (value # Pending /\ raw.tag = "str" /\ ~WholePattern(Cleaned(raw.text)))
        => value = Zero

\* the urls requested so far are the first urls of the list, in order
C10_Order ==
    /\ Len(requested) <= Len(JINA_URLS)
    /\ \A i \in 1..Len(requested) : requested[i] = JINA_URLS[i]
    /\ pc = "running" => Len(requested) = idx - 1

\* requests are added one at a time while the loop runs, none after a return
C10_Step ==
    /\ requested' # requested /\ requested' # <<>> =>
          pc = "running" /\ Len(requested') = Len(requested) + 1
    /\ pc = "returned" => requested' \in {requested, <<>>}

\* C10: within one call the urls are requested in list order, one at a time,
\* each at most once, and none after the one that produced the returned
\* dataset.
C10_VariantsInOrderOnce == []C10_Order /\ [][C10_Step]_vars

\* the fourth variant returned the dataset after three failures
C10_Witness ==
    /\ BodyReturned
    /\ requested = SubSeq(JINA_URLS, 1, 4)

=============================================================================
